---- MODULE Spec2Model ----
(***************************************************************************)
(* Model of diesel's PostgreSQL upsert extension surface                   *)
(* (diesel/src/pg/upsert/on_conflict_extension.rs).                        *)
(*                                                                         *)
(* A behaviour is the life of one expression of client code: a row source  *)
(* is decorated through OnConflictExtension, handed to                     *)
(* insert_into(users).values(..), possibly decorated as a statement, and   *)
(* executed against the users table.  A call the type checker rejects      *)
(* turns the expression into a compile error, after which nothing runs.    *)
(*                                                                         *)
(* The file holds the two decoration entry points and their doc tests.     *)
(* The wrapper types' Insertable and QueryFragment impls, the insert       *)
(* statement builder and the database live elsewhere; they are modelled    *)
(* from the design notes and the doc tests' assertions.                    *)
(***************************************************************************)
EXTENDS Integers, Sequences, FiniteSets, TLC

VARIABLES
    with_deprecated,  \* cargo feature "with-deprecated" of the build
    connected,        \* whether establish_connection() has run
    table,            \* rows of the users table of the connection
    table0,           \* the users table before the first execution
    indexes,          \* unique indexes created on users besides the primary key
    source,           \* the row source the expression starts from
    expr,             \* the value the expression has been composed to so far
    calls,            \* the method calls of the expression, in order
    runs              \* results of the executions of the statement, in order

vars == <<with_deprecated, connected, table, table0, indexes, source, expr, calls, runs>>

(***************************************************************************)
(* Bounds                                                                  *)
(***************************************************************************)
MaxBatch == 3       \* longest Vec / slice of records
MaxRuns == 2        \* executions of one statement
MaxTargetLen == 2   \* longest tuple of columns given as a conflict target
MaxAssign == 2      \* longest assignment list given to do_update

(***************************************************************************)
(* The users table of the doc tests: id is the primary key.                *)
(***************************************************************************)
Ids == {1, 2}
Names == {"Sean", "Pascal"}
HairColors == {"black", "brown"}
Columns == {"id", "name", "hair_color"}
User == [id : Ids, name : Names, hair_color : HairColors]

PrimaryKey == {"id"}
users_name == {"name"}
users_name_hair_color == {"name", "hair_color"}
UniqueIndexes == {users_name, users_name_hair_color}

\* Every unique constraint in force: the primary key and the created indexes.
Constraints(idx) == {PrimaryKey} \cup idx

\* The rows of tbl that agree with record r on every column of constraint k.
Conflicting(r, tbl, k) == {x \in tbl : \A c \in k : x[c] = r[c]}

\* tbl satisfies every constraint of idx.
Consistent(tbl, idx) ==
    \A k \in Constraints(idx) : \A x \in tbl : Conflicting(x, tbl, k) = {x}

Range(s) == {s[i] : i \in 1..Len(s)}

NoDuplicates(s) == \A i, j \in 1..Len(s) : s[i] = s[j] => i = j

SeqsUpTo(S, lo, hi) == UNION {[1..n -> S] : n \in lo..hi}

(***************************************************************************)
(* Targets and actions                                                     *)
(***************************************************************************)
\* NoConflictTarget: the target of a bare ON CONFLICT.
NoConflictTarget == <<>>

\* ConflictTarget(target): a column or a tuple of columns, in the given order.
ConflictTarget(target) == target

\* do_nothing()
DoNothing == [tag |-> "DoNothing", set |-> <<>>]
do_nothing == DoNothing

\* The value of an action expression that does not type-check.
InvalidAction == [tag |-> "Invalid", set |-> <<>>]

\* Faulty variant: takes any assignment list.
do_update_Unchecked(assignments) == [tag |-> "DoUpdate", set |-> assignments]

\* do_update().set(assignments): the assigned columns, each set to its
\* proposed (excluded) value; empty and duplicate lists do not compose.
do_update(assignments) ==
    IF assignments = <<>> \/ ~NoDuplicates(assignments)
    THEN InvalidAction
    ELSE [tag |-> "DoUpdate", set |-> assignments]

(***************************************************************************)
(* Values of an expression.                                                *)
(*   kind    "RowSource"    a record, tuple, Eq, slice, Vec or Option,     *)
(*                          possibly wrapped by OnConflictDoNothing or     *)
(*                          OnConflict (wrappers, outermost last)          *)
(*           "Statement"    InsertStatement; clauses are the               *)
(*                          OnConflictValues layers around its values      *)
(*           "CompileError" the expression does not type-check             *)
(***************************************************************************)
Shapes == {"Record", "Tuple", "Eq", "Slice", "Vec", "Option"}

RowSource(shape, rows) ==
    [kind |-> "RowSource", shape |-> shape, rows |-> rows, wrappers |-> <<>>,
     clauses |-> <<>>]

CompileError ==
    [kind |-> "CompileError", shape |-> "None", rows |-> <<>>,
     wrappers |-> <<>>, clauses |-> <<>>]

Clause(target, action) == [target |-> target, action |-> action]

\* OnConflictDoNothing::new(records)
OnConflictDoNothing_new(records) ==
    [records EXCEPT !.wrappers =
        Append(@, [ty |-> "OnConflictDoNothing",
                   clause |-> Clause(NoConflictTarget, DoNothing)])]

\* OnConflict::new(records, target, action)
OnConflict_new(records, target, action) ==
    [records EXCEPT !.wrappers =
        Append(@, [ty |-> "OnConflict", clause |-> Clause(target, action)])]

\* OnConflictValues::do_nothing(values)
OnConflictValues_do_nothing(stmt) ==
    [stmt EXCEPT !.clauses = Append(@, Clause(NoConflictTarget, DoNothing))]

(***************************************************************************)
(* Capabilities                                                            *)
(***************************************************************************)
\* The shapes OnConflictExtension is implemented for: Eq, [T], Vec<T> and
\* Option<T> here, tuples and derived Insertable records in the two impls
\* the comment names.
ExtensionShapes == {"Eq", "Slice", "Vec", "Option"} \cup {"Tuple", "Record"}

\* Faulty variant: a blanket impl, for every type.
HasOnConflictExtension_Blanket(v) == v.kind # "CompileError"

\* Faulty variant: the conflict wrappers have the impl too.
HasOnConflictExtension_Wrappers(v) ==
    /\ v.kind = "RowSource"
    /\ v.shape \in ExtensionShapes

\* v implements OnConflictExtension.  InsertStatement, OnConflictDoNothing
\* and OnConflict have no impl.
HasOnConflictExtension(v) ==
    /\ v.kind = "RowSource"
    /\ v.wrappers = <<>>
    /\ v.shape \in ExtensionShapes

\* U: UndecoratedInsertRecord<T>, for the values U of a statement: values
\* that came from a plain row source and carry no OnConflictValues layer.
UndecoratedInsertRecord(stmt) == stmt.clauses = <<>>

\* v: Insertable<T>: a plain row source, or one conflict wrapper around a
\* plain row source.
Insertable(v) == v.kind = "RowSource" /\ Len(v.wrappers) <= 1

(***************************************************************************)
(* The methods                                                             *)
(***************************************************************************)
\* Faulty variant: hands the records back without the wrapper.
on_conflict_do_nothing_Undecorated(self) == self

\* Faulty variant: wraps with a primary-key target instead of none.
on_conflict_do_nothing_PrimaryKey(self) ==
    OnConflict_new(self, ConflictTarget(<<"id">>), DoNothing)

\* OnConflictExtension::on_conflict_do_nothing(&self)
on_conflict_do_nothing(self) == OnConflictDoNothing_new(self)

\* Faulty variant: drops the target.
on_conflict_NoTarget(self, target, action) ==
    OnConflict_new(self, NoConflictTarget, action)

\* Faulty variant: keeps the first column of the target only.
on_conflict_FirstColumn(self, target, action) ==
    OnConflict_new(self, ConflictTarget(<<target[1]>>), action)

\* Faulty variant: hands the columns over in reverse order.
on_conflict_Reversed(self, target, action) ==
    OnConflict_new(self,
        ConflictTarget([i \in 1..Len(target) |-> target[Len(target) + 1 - i]]),
        action)

\* OnConflictExtension::on_conflict(&self, target, action)
on_conflict(self, target, action) ==
    OnConflict_new(self, ConflictTarget(target), action)

\* Faulty variant: returns the statement as it was.
InsertStatement_on_conflict_do_nothing_Unchanged(self) == self

\* Faulty variant: the statement form names the primary key as target.
InsertStatement_on_conflict_do_nothing_PrimaryKey(self) ==
    [self EXCEPT !.clauses = Append(@, Clause(<<"id">>, DoNothing))]

\* InsertStatement::on_conflict_do_nothing(self):
\* self.replace_values(OnConflictValues::do_nothing)
InsertStatement_on_conflict_do_nothing(self) == OnConflictValues_do_nothing(self)

\* insert_into(users).values(&records): the statement over the records'
\* values; the clause of a conflict wrapper becomes OnConflictValues.
values(records) ==
    [kind |-> "Statement", shape |-> records.shape, rows |-> records.rows,
     wrappers |-> <<>>,
     clauses |-> [i \in 1..Len(records.wrappers) |-> records.wrappers[i].clause]]

(***************************************************************************)
(* Rendering.  SQL text is a sequence of tokens; a space is a token.       *)
(***************************************************************************)
SP == " "

RECURSIVE Join(_, _)
\* The token lists of parts, separated by sep.
Join(parts, sep) ==
    IF parts = <<>> THEN <<>>
    ELSE IF Len(parts) = 1 THEN parts[1]
    ELSE parts[1] \o sep \o Join(Tail(parts), sep)

\* NoTarget -> ""; Columns -> "(" + comma-joined column names + ")"
RenderTarget(target) ==
    IF target = NoConflictTarget THEN <<>>
    ELSE <<"(">> \o Join([i \in 1..Len(target) |-> <<target[i]>>], <<",", SP>>)
                 \o <<")">>

RenderAssignment(col) == <<col, SP, "=", SP, "excluded." \o col>>

\* DoNothing -> "DO NOTHING"; DoUpdate -> "DO UPDATE SET " + assignments
RenderAction(action) ==
    IF action.tag = "DoNothing" THEN <<"DO", SP, "NOTHING">>
    ELSE <<"DO", SP, "UPDATE", SP, "SET", SP>>
         \o Join([i \in 1..Len(action.set) |-> RenderAssignment(action.set[i])],
                 <<",", SP>>)

\* "ON CONFLICT" [ " " target ] " " action
RenderClause(clause) ==
    LET t == RenderTarget(clause.target)
    IN  <<"ON", SP, "CONFLICT">> \o (IF t = <<>> THEN <<>> ELSE <<SP>> \o t)
        \o <<SP>> \o RenderAction(clause.action)

\* One "(id, name, hair_color)" values group per record.
RenderRow(r) == <<"(", ToString(r.id), ",", SP, r.name, ",", SP, r.hair_color, ")">>

\* INSERT INTO users VALUES rows, then one space and the clause, per layer.
RenderStatement(stmt) ==
    <<"INSERT", SP, "INTO", SP, "users", SP, "VALUES", SP>>
    \o Join([i \in 1..Len(stmt.rows) |-> RenderRow(stmt.rows[i])], <<",", SP>>)
    \o Join([i \in 1..Len(stmt.clauses) |-> <<SP>> \o RenderClause(stmt.clauses[i])],
            <<>>)

(***************************************************************************)
(* Execution: PostgreSQL's INSERT ... [ON CONFLICT ...] over the table.    *)
(***************************************************************************)
Ok(n) == [ok |-> TRUE, n |-> n, err |-> "none"]
Err(e) == [ok |-> FALSE, n |-> 0, err |-> e]

\* The constraints a clause arbitrates: all of them for a bare ON CONFLICT,
\* else the unique constraints over exactly the target's columns.
Arbiters(clause, idx) ==
    IF clause.target = NoConflictTarget THEN Constraints(idx)
    ELSE {k \in Constraints(idx) : k = Range(clause.target)}

\* x with the assigned columns set to the proposed row's values.
Updated(x, r, set) ==
    [c \in Columns |-> IF c \in Range(set) THEN r[c] ELSE x[c]]

\* One proposed row r.  acc: the table so far, the rows this statement has
\* inserted or updated, the count, and the error that aborted it.
ExecRow(acc, r, clauses, idx) ==
    IF acc.err # "none" THEN acc
    ELSE
      LET arb == IF clauses = <<>> THEN {} ELSE Arbiters(clauses[1], idx)
          hits == UNION {Conflicting(r, acc.table, k) : k \in arb}
          other == UNION {Conflicting(r, acc.table, k) : k \in Constraints(idx)}
      IN  IF hits # {} THEN
            IF clauses[1].action.tag = "DoNothing" THEN acc
            ELSE
              LET x == CHOOSE y \in hits : TRUE
                  u == Updated(x, r, clauses[1].action.set)
                  rest == acc.table \ {x}
              IN  IF x \in acc.touched
                  THEN [acc EXCEPT !.err = "CardinalityViolation"]
                  ELSE IF \E k \in Constraints(idx) : Conflicting(u, rest, k) # {}
                  THEN [acc EXCEPT !.err = "UniqueViolation"]
                  ELSE [acc EXCEPT !.table = rest \cup {u},
                                   !.touched = @ \cup {u},
                                   !.n = @ + 1]
          ELSE IF other # {} THEN [acc EXCEPT !.err = "UniqueViolation"]
          ELSE [acc EXCEPT !.table = @ \cup {r}, !.touched = @ \cup {r},
                           !.n = @ + 1]

RECURSIVE ExecRows(_, _, _, _)
ExecRows(acc, rows, clauses, idx) ==
    IF rows = <<>> THEN acc
    ELSE ExecRows(ExecRow(acc, rows[1], clauses, idx), Tail(rows), clauses, idx)

\* stmt.execute(&conn): the result and the table afterwards.  A statement
\* that fails leaves the table as it was.
Exec(stmt, tbl, idx) ==
    IF Len(stmt.clauses) > 1
    THEN [result |-> Err("SyntaxError"), table |-> tbl]
    ELSE IF stmt.clauses # <<>> /\ Arbiters(stmt.clauses[1], idx) = {}
    THEN [result |-> Err("InvalidColumnReference"), table |-> tbl]
    ELSE
      LET acc == ExecRows([table |-> tbl, touched |-> {}, n |-> 0, err |-> "none"],
                          stmt.rows, stmt.clauses, idx)
      IN  IF acc.err # "none"
          THEN [result |-> Err(acc.err), table |-> tbl]
          ELSE [result |-> Ok(acc.n), table |-> acc.table]

(***************************************************************************)
(* Inputs                                                                  *)
(***************************************************************************)
\* Column tuples given as a target: non-empty, no column twice.
Targets == {t \in SeqsUpTo(Columns, 1, MaxTargetLen) : NoDuplicates(t)}

\* Assignment lists given to do_update: any list, also empty or repeating.
AssignLists == SeqsUpTo(Columns \ PrimaryKey, 0, MaxAssign)

\* Action expressions: do_nothing(), do_update().set(assignments)
ActionExpr(fn, set) == [fn |-> fn, set |-> set]
DoNothingExprs == {ActionExpr("do_nothing", <<>>)}
DoUpdateExprs == {ActionExpr("do_update", a) : a \in AssignLists}
Eval(e) == IF e.fn = "do_nothing" THEN do_nothing ELSE do_update(e.set)

\* Records of a Vec or slice: every id and name, one hair colour.
BatchUsers == {u \in User : u.hair_color = "black"}
Batches == SeqsUpTo(BatchUsers, 1, MaxBatch)

\* Row sources with data: a record, Some(record), a Vec, a slice.
DataRowSources ==
    {RowSource(sh, <<r>>) : sh \in {"Record", "Option"}, r \in User}
    \cup {RowSource(sh, b) : sh \in {"Vec", "Slice"}, b \in Batches}

\* Row sources of every shape over the doc tests' user.
Sean == [id |-> 1, name |-> "Sean", hair_color |-> "black"]
ShapeRowSources == {RowSource(sh, <<Sean>>) : sh \in Shapes}

\* Tables that satisfy the primary key.
Tables == {t \in SUBSET User : Consistent(t, {})}

Call(m, target, action) == [m |-> m, target |-> target, action |-> action]

ExtDoNothing == "OnConflictExtension::on_conflict_do_nothing"
ExtOnConflict == "OnConflictExtension::on_conflict"
StmtDoNothing == "InsertStatement::on_conflict_do_nothing"
Values == "values"

(***************************************************************************)
(* Actions                                                                 *)
(***************************************************************************)
InitOver(rowSources) ==
    /\ with_deprecated \in BOOLEAN
    /\ connected = FALSE
    /\ indexes = {}
    /\ table = {}
    /\ table0 = {}
    /\ source \in rowSources
    /\ expr = source
    /\ calls = <<>>
    /\ runs = <<>>

Composing == expr.kind # "CompileError" /\ ~connected

\* expr.on_conflict_do_nothing() through OnConflictExtension: exists only
\* under the with-deprecated feature and for a type with the impl.
CallOnConflictDoNothing ==
    /\ Composing
    /\ expr' = IF with_deprecated /\ HasOnConflictExtension(expr)
               THEN on_conflict_do_nothing(expr)
               ELSE CompileError
    /\ calls' = Append(calls, Call(ExtDoNothing, <<>>, ActionExpr("none", <<>>)))
    /\ UNCHANGED <<with_deprecated, connected, table, table0, indexes, source, runs>>

\* expr.on_conflict(target, action) through OnConflictExtension.
CallOnConflict(target, action) ==
    /\ Composing
    /\ expr' = IF HasOnConflictExtension(expr) /\ Eval(action).tag # "Invalid"
               THEN on_conflict(expr, target, Eval(action))
               ELSE CompileError
    /\ calls' = Append(calls, Call(ExtOnConflict, target, action))
    /\ UNCHANGED <<with_deprecated, connected, table, table0, indexes, source, runs>>

\* insert_into(users).values(&expr)
CallValues ==
    /\ Composing
    /\ expr' = IF Insertable(expr) THEN values(expr) ELSE CompileError
    /\ calls' = Append(calls, Call(Values, <<>>, ActionExpr("none", <<>>)))
    /\ UNCHANGED <<with_deprecated, connected, table, table0, indexes, source, runs>>

\* expr.on_conflict_do_nothing() of InsertStatement, for undecorated values.
CallStatementOnConflictDoNothing ==
    /\ Composing
    /\ expr' = IF expr.kind = "Statement" /\ UndecoratedInsertRecord(expr)
               THEN InsertStatement_on_conflict_do_nothing(expr)
               ELSE CompileError
    /\ calls' = Append(calls, Call(StmtDoNothing, <<>>, ActionExpr("none", <<>>)))
    /\ UNCHANGED <<with_deprecated, connected, table, table0, indexes, source, runs>>

\* let conn = establish_connection(), with the doc tests' setup of users
\* (TRUNCATE, CREATE UNIQUE INDEX, earlier inserts).  Composition never reads
\* the connection, so it is established when the statement is built.
Connect(tables) ==
    /\ expr.kind = "Statement"
    /\ ~connected
    /\ connected' = TRUE
    /\ indexes' \in SUBSET UniqueIndexes
    /\ table' \in {t \in tables : Consistent(t, indexes')}
    /\ table0' = table'
    /\ UNCHANGED <<with_deprecated, source, expr, calls, runs>>

\* expr.execute(&conn)
Execute ==
    /\ expr.kind = "Statement"
    /\ connected
    /\ Len(runs) < MaxRuns
    /\ LET out == Exec(expr, table, indexes)
       IN  /\ runs' = Append(runs, out.result)
           /\ table' = out.table
    /\ UNCHANGED <<with_deprecated, connected, table0, indexes, source, expr, calls>>

(***************************************************************************)
(* Spec: row sources with data, DO NOTHING clauses, every table.           *)
(* SpecCompose: every shape, every action, over one record.                *)
(***************************************************************************)
Init == InitOver(DataRowSources)

Next ==
    \/ CallOnConflictDoNothing
    \/ \E t \in Targets, a \in DoNothingExprs : CallOnConflict(t, a)
    \/ CallValues
    \/ CallStatementOnConflictDoNothing
    \/ Connect(Tables)
    \/ Execute

Spec == Init /\ [][Next]_vars

InitCompose == InitOver(ShapeRowSources)

NextCompose ==
    \/ CallOnConflictDoNothing
    \/ \E t \in Targets, a \in DoNothingExprs \cup DoUpdateExprs : CallOnConflict(t, a)
    \/ CallValues
    \/ CallStatementOnConflictDoNothing
    \/ Connect({{}, {Sean}})
    \/ Execute

SpecCompose == InitCompose /\ [][NextCompose]_vars

(***************************************************************************)
(* Vocabulary of the properties                                            *)
(***************************************************************************)
\* values(&rs.on_conflict_do_nothing())
RowSourceForm ==
    /\ Len(calls) = 2
    /\ calls[1].m = ExtDoNothing
    /\ calls[2].m = Values

\* values(&rs).on_conflict_do_nothing()
StatementForm ==
    /\ Len(calls) = 2
    /\ calls[1].m = Values
    /\ calls[2].m = StmtDoNothing

\* values(&rs.on_conflict(target, do_nothing()))
TargetForm ==
    /\ Len(calls) = 2
    /\ calls[1].m = ExtOnConflict
    /\ calls[1].action.fn = "do_nothing"
    /\ calls[2].m = Values

\* r conflicts with a row of tbl on some constraint of ks.
ConflictsOn(r, tbl, ks) == \E k \in ks : Conflicting(r, tbl, k) # {}

\* Records a and b agree on every column of some constraint in force.
Clash(a, b) == ConflictsOn(a, {b}, Constraints(indexes))

\* Every execution so far returned Ok(n).
AllOk(n) == \A i \in 1..Len(runs) : runs[i] = Ok(n)

\* The first execution returned Ok(n), every later one Ok(0).
FirstThenNone(n) ==
    \A i \in 1..Len(runs) : runs[i] = IF i = 1 THEN Ok(n) ELSE Ok(0)

\* A Vec or slice with a bare ON CONFLICT DO NOTHING has been executed on a
\* table none of its records conflicts with.
BatchDoNothing ==
    /\ connected
    /\ source.shape \in {"Vec", "Slice"}
    /\ RowSourceForm \/ StatementForm
    /\ \A i \in 1..Len(source.rows) :
         ~ConflictsOn(source.rows[i], table0, Constraints(indexes))
    /\ runs # <<>>

\* A is the set of records the statement inserts: those that clash with no
\* earlier record that was itself inserted.
Inserted(A) ==
    \A i \in 1..Len(source.rows) :
      i \in A <=> \A j \in A : j < i => ~Clash(source.rows[j], source.rows[i])

\* a and b render the same SQL and do the same to the table.
SameStatement(a, b) ==
    /\ RenderStatement(a) = RenderStatement(b)
    /\ Exec(a, table, indexes) = Exec(b, table, indexes)

\* The bare method has been called on a row source of a listed shape.
BareMethodOnRowSource ==
    /\ Len(calls) = 1
    /\ calls[1].m = ExtDoNothing
    /\ source.shape \in {"Record", "Vec", "Slice", "Tuple", "Option"}

\* Call i is a method of OnConflictExtension made on an insert statement.
ExtensionOnStatement(i) ==
    /\ i >= 2
    /\ calls[i].m \in {ExtDoNothing, ExtOnConflict}
    /\ calls[i - 1].m \in {Values, StmtDoNothing}

NeverOnStatement ==
    \A i \in 1..Len(calls) : ExtensionOnStatement(i) => expr.kind = "CompileError"

\* The number of decorating calls of the expression.
Decorations ==
    Cardinality({i \in 1..Len(calls) :
                   calls[i].m \in {ExtDoNothing, ExtOnConflict, StmtDoNothing}})

\* The conflict clause of a decorated row source or statement.
TheClause(e) ==
    IF e.kind = "Statement" THEN e.clauses[1] ELSE e.wrappers[1].clause

SingleSpaced(s) ==
    /\ s[1] # " "
    /\ s[Len(s)] # " "
    /\ \A i \in 1..(Len(s) - 1) : ~(s[i] = " " /\ s[i + 1] = " ")

BadAssignments(set) ==
    set = <<>> \/ \E i, j \in 1..Len(set) : i # j /\ set[i] = set[j]

(***************************************************************************)
(* Properties of Spec                                                      *)
(***************************************************************************)
\* C1: from a table with no row conflicting with record r, the insert of r
\* with ON CONFLICT DO NOTHING, in the row-source form and in the statement
\* form, returns Ok(1) the first time and Ok(0) the next, without an error,
\* and the table then holds the old rows and r.
C1_InsertTwice ==
    ( /\ connected
      /\ source.shape = "Record"
      /\ RowSourceForm \/ StatementForm
      /\ ~ConflictsOn(source.rows[1], table0, Constraints(indexes)) )
    => /\ FirstThenNone(1)
       /\ runs # <<>> => table = table0 \cup {source.rows[1]}

C1_Witness ==
    /\ source.shape = "Record"
    /\ RowSourceForm
    /\ table0 # {}
    /\ ~ConflictsOn(source.rows[1], table0, Constraints(indexes))
    /\ runs = <<Ok(1), Ok(0)>>

\* C2: with on_conflict(c, do_nothing()) for one unique column c, a record
\* that conflicts on c alone gives Ok(0) and leaves the table as it was; a
\* record that conflicts on another constraint and not on c gives the
\* database's unique-violation error, as the database reported it.
C2_SingleColumnTarget ==
    ( /\ connected
      /\ Len(source.rows) = 1
      /\ TargetForm
      /\ Len(calls[1].target) = 1
      /\ Range(calls[1].target) \in Constraints(indexes) )
    => LET r == source.rows[1]
           named == {Range(calls[1].target)}
           others == Constraints(indexes) \ named
       IN  /\ ( /\ ConflictsOn(r, table0, named)
                /\ ~ConflictsOn(r, table0, others) )
              => AllOk(0) /\ table = table0
           /\ ( /\ ~ConflictsOn(r, table0, named)
                /\ ConflictsOn(r, table0, others) )
              => /\ \A i \in 1..Len(runs) : runs[i] = Err("UniqueViolation")
                 /\ table = table0

C2_Witness ==
    /\ connected
    /\ Len(source.rows) = 1
    /\ TargetForm
    /\ calls[1].target = <<"name">>
    /\ users_name \in indexes
    /\ ~ConflictsOn(source.rows[1], table0, {users_name})
    /\ ConflictsOn(source.rows[1], table0, {PrimaryKey})
    /\ runs = <<Err("UniqueViolation")>>

\* C3: with on_conflict((c1, c2), do_nothing()) for a two-column unique
\* index, a record with a fresh primary key is skipped with Ok(0) when an
\* existing row equals it on both columns, and is inserted with Ok(1) when
\* none does, also when a row shares one of the two values.
C3_TupleTarget ==
    ( /\ connected
      /\ Len(source.rows) = 1
      /\ TargetForm
      /\ Len(calls[1].target) = 2
      /\ Range(calls[1].target) \in Constraints(indexes)
      /\ ~ConflictsOn(source.rows[1], table0,
                      Constraints(indexes) \ {Range(calls[1].target)}) )
    => LET r == source.rows[1]
           both == \E x \in table0 :
                     \A i \in 1..2 : x[calls[1].target[i]] = r[calls[1].target[i]]
       IN  /\ both => AllOk(0) /\ table = table0
           /\ ~both =>
                /\ FirstThenNone(1)
                /\ runs # <<>> => table = table0 \cup {r}

C3_Witness ==
    /\ connected
    /\ Len(source.rows) = 1
    /\ TargetForm
    /\ calls[1].target = <<"name", "hair_color">>
    /\ indexes = {users_name_hair_color}
    /\ \E x \in table0 : /\ x.id # source.rows[1].id
                         /\ x.name = source.rows[1].name
                         /\ x.hair_color # source.rows[1].hair_color
    /\ runs = <<Ok(1)>>

\* C4 as stated: for a Vec or slice with ON CONFLICT DO NOTHING, run on a
\* table none of the records conflicts with, rows-affected is the number of
\* records that conflict with no earlier record of the row source.
C4_CountsNoEarlierConflict ==
    BatchDoNothing =>
      runs[1] = Ok(Cardinality({i \in 1..Len(source.rows) :
                    \A j \in 1..(i - 1) : ~Clash(source.rows[j], source.rows[i])}))

\* C4 amended: rows-affected is the number of records that conflict with no
\* earlier record of the row source that was itself inserted; no execution
\* fails, and the table gains exactly those records.
C4_CountsInserted ==
    BatchDoNothing =>
      \E A \in SUBSET (1..Len(source.rows)) :
        /\ Inserted(A)
        /\ FirstThenNone(Cardinality(A))
        /\ table = table0 \cup {source.rows[i] : i \in A}

C4_Witness ==
    /\ BatchDoNothing
    /\ source.shape = "Slice"
    /\ Len(source.rows) = 2
    /\ source.rows[1] = source.rows[2]
    /\ runs = <<Ok(1)>>

\* C5: the row-source form and the statement form of ON CONFLICT DO NOTHING
\* build statements that render the same SQL and, on the same table, return
\* the same result and leave the same rows.
C5_FormsEquivalent ==
    /\ (RowSourceForm /\ expr.kind = "Statement") =>
         SameStatement(expr, InsertStatement_on_conflict_do_nothing(values(source)))
    /\ (StatementForm /\ with_deprecated) =>
         SameStatement(expr, values(on_conflict_do_nothing(source)))

C5_Witness ==
    /\ RowSourceForm
    /\ connected
    /\ source.shape = "Vec"
    /\ ConflictsOn(source.rows[1], table0, Constraints(indexes))
    /\ Len(runs) = 1

(***************************************************************************)
(* Properties of SpecCompose                                               *)
(***************************************************************************)
\* C6 as stated: the bare method OnConflictExtension::on_conflict_do_nothing
\* composes on a record, a Vec, a slice, a tuple and an Option, and no
\* method of the trait composes on an insert statement.
C6_BareMethodReachable ==
    /\ BareMethodOnRowSource =>
         expr.kind = "RowSource" /\ Len(expr.wrappers) = 1
    /\ NeverOnStatement

\* C6 amended: in a build with the with-deprecated feature the bare method
\* composes on a record, a Vec, a slice, a tuple and an Option; in no build
\* does a method of the trait compose on an insert statement.
C6_BareMethodReachableWithFeature ==
    /\ (BareMethodOnRowSource /\ with_deprecated) =>
         expr.kind = "RowSource" /\ Len(expr.wrappers) = 1
    /\ NeverOnStatement

C6_Witness ==
    /\ with_deprecated
    /\ Len(calls) = 2
    /\ calls[1].m = Values
    /\ calls[2].m = ExtDoNothing
    /\ expr.kind = "CompileError"

\* C7: no value carries more than one conflict clause; a second decoration,
\* of the row source or of the statement, is a compile error, and no
\* statement with two clauses reaches the database.
C7_AtMostOneClause ==
    /\ expr.kind # "CompileError" => Len(expr.wrappers) + Len(expr.clauses) <= 1
    /\ Decorations >= 2 =>
         expr.kind = "CompileError" /\ ~connected /\ runs = <<>>
    /\ \A i \in 1..Len(runs) : runs[i].err # "SyntaxError"

C7_Witness ==
    /\ Len(calls) = 3
    /\ calls[1].m = ExtOnConflict
    /\ calls[2].m = Values
    /\ calls[3].m = StmtDoNothing
    /\ expr.kind = "CompileError"

\* C8: the clause of on_conflict_do_nothing, on either path, renders as
\* ON CONFLICT DO NOTHING: single spaces, none leading or trailing, and the
\* statement ends with one space and that clause.
C8_RendersDoNothing ==
    ( /\ expr.kind # "CompileError"
      /\ \/ RowSourceForm
         \/ StatementForm
         \/ Len(calls) = 1 /\ calls[1].m = ExtDoNothing )
    => LET s == RenderClause(TheClause(expr))
       IN  /\ s = <<"ON", " ", "CONFLICT", " ", "DO", " ", "NOTHING">>
           /\ SingleSpaced(s)
           /\ expr.kind = "Statement" =>
                LET q == RenderStatement(expr)
                IN  SubSeq(q, Len(q) - 7, Len(q)) = <<" ">> \o s

C8_Witness ==
    /\ StatementForm
    /\ expr.kind = "Statement"
    /\ source.shape = "Tuple"

\* C9: on_conflict(target, do_nothing()) over columns c1, .., cn renders as
\* ON CONFLICT (c1, .., cn) DO NOTHING: the given columns, each once, in the
\* given order, separated by a comma and a space.
C9_RendersColumns ==
    ( /\ calls # <<>>
      /\ calls[1].m = ExtOnConflict
      /\ calls[1].action.fn = "do_nothing"
      /\ expr.kind # "CompileError" )
    => LET t == calls[1].target
           n == Len(t)
           s == RenderClause(TheClause(expr))
       IN  /\ Len(s) = 3 * n + 8
           /\ SubSeq(s, 1, 5) = <<"ON", " ", "CONFLICT", " ", "(">>
           /\ \A i \in 1..n : s[3 * i + 3] = t[i]
           /\ \A i \in 1..(n - 1) : s[3 * i + 4] = "," /\ s[3 * i + 5] = " "
           /\ SubSeq(s, 3 * n + 4, 3 * n + 8) = <<")", " ", "DO", " ", "NOTHING">>

C9_Witness ==
    /\ Len(calls) = 2
    /\ calls[1].m = ExtOnConflict
    /\ calls[1].action.fn = "do_nothing"
    /\ calls[1].target = <<"name", "hair_color">>
    /\ expr.kind = "Statement"

\* C10: on_conflict(target, do_update().set(..)) with an empty assignment
\* list, or with a column assigned twice, is a compile error: no value
\* carries such an action and no such statement is executed.
C10_DoUpdateRejected ==
    /\ ( \E i \in 1..Len(calls) :
           /\ calls[i].m = ExtOnConflict
           /\ calls[i].action.fn = "do_update"
           /\ BadAssignments(calls[i].action.set) )
       => expr.kind = "CompileError" /\ ~connected /\ runs = <<>>
    /\ \A i \in 1..Len(expr.wrappers) :
         expr.wrappers[i].clause.action.tag = "DoUpdate"
           => ~BadAssignments(expr.wrappers[i].clause.action.set)
    /\ \A i \in 1..Len(expr.clauses) :
         expr.clauses[i].action.tag = "DoUpdate"
           => ~BadAssignments(expr.clauses[i].action.set)

C10_Witness ==
    /\ Len(calls) = 1
    /\ calls[1].m = ExtOnConflict
    /\ calls[1].action = ActionExpr("do_update", <<"name", "name">>)
    /\ expr.kind = "CompileError"

====
